---- MODULE Spec2Model ----
(***************************************************************************)
(* push2-lightshow: the entity engine of src/main.rs and src/entity.rs.    *)
(*                                                                         *)
(* State: the fields of App that the event handlers and the frame step     *)
(* read or write, and the loop variable `event` of main.  Output-only      *)
(* state (the MIDI output buffer, the display) is left out: no handler     *)
(* reads it back; update_display is kept for its one effect on that state, *)
(* the default entry get_active_config inserts, and the display calls in   *)
(* it are taken to succeed.  The content of the saved file is left out.    *)
(*                                                                         *)
(* Specifications.                                                         *)
(*   Spec      the main loop with the mpsc channel as the environment: in  *)
(*             any iteration try_iter may yield any messages, in any       *)
(*             number, before it finds the channel empty (Handle), and     *)
(*             the rest of the iteration is one step (Frame).              *)
(*   SpecLong  the same loop run up to the first autosave (iteration 30).  *)
(*   SpecLoop  the loop with the channel, the sending callback and the     *)
(*             phases of an iteration: drain, update_display, step.        *)
(*   SpecPure  the pure functions of entity.rs called on every argument.   *)
(*                                                                         *)
(* Numbers.  tick, t0 and hue are f64 in the source but only ever hold     *)
(* integers (they start integral and move by 1.0), so they are Int here.   *)
(* duration and alpha move by factors of 1.01; they are kept exactly, as   *)
(* base * 1.01^exp (a record [base, exp]), and compared by cross           *)
(* multiplication, i.e. as real numbers: f64 rounding is not modelled.     *)
(* beta moves by 0.01 and is kept in hundredths.  kind and distance are u8 *)
(* and keep their width.                                                   *)
(***************************************************************************)
EXTENDS Integers, Sequences, FiniteSets, TLC

VARIABLES
    entities,         \* App.entities: BTreeMap<usize, Box<Entity>>
    fresh_entity_id,  \* App.fresh_entity_id
    tick,             \* App.tick
    assignments,      \* App.config.assignments: BTreeMap<u8, Box<EntityConfig>>
    active_config,    \* App.active_config
    assigning,        \* App.assigning
    focused_knobs,    \* App.focused_knobs
    event,            \* main: the message try_iter yielded last in this iteration
    handled,          \* number of messages App::handle has been called with
    panicked,         \* the main thread has panicked; the process is gone
    autosave,         \* main: the local counter `autosave`
    save_result,      \* main: what the last app.save() returned
    exited,           \* main has returned the error of app.save()
    queue,            \* the mpsc channel (tx, rx): messages sent, not yet received
    sent_log,         \* history: every message the input callback has sent
    applied,          \* history: every message App::handle was called with
    pc,               \* main loop: "drain", or "render" from update_display
                      \* to the end of App::step
    probe             \* a call of a pure function: its arguments and result

vars == <<entities, fresh_entity_id, tick, assignments, active_config,
          assigning, focused_knobs, event, handled, panicked, autosave,
          save_result, exited, queue, sent_log, applied, pc, probe>>

-----------------------------------------------------------------------------
(* Bounds of the model *)

MaxTick == 8
MaxEvents == 2
MaxLongTick == 31

-----------------------------------------------------------------------------
(* Program constants *)

NUM_ANIMATIONS == 5
RELEASE_TIME == 5
FIRST_ENTITY_ID == 1000
SENTINEL == 1024
STREAM_CUTOFF == 12
PAD_KEY_MIN == 36
PAD_KEY_MAX == 99
GRID == 8
U8 == 256
ASSIGN_CONTROLLER == 86
KNOB_TOUCH_MAX == 10
CW_OFF == 127
AUTOSAVE_PERIOD == 30

-----------------------------------------------------------------------------
(* Exact arithmetic on base * 1.01^exp *)

RECURSIVE Pow(_, _)
Pow(b, n) == IF n = 0 THEN 1 ELSE b * Pow(b, n - 1)

\* s * 1.01 and s / 1.01
ScaleUp(s) == [s EXCEPT !.exp = @ + 1]
ScaleDown(s) == [s EXCEPT !.exp = @ - 1]

\* n >= s.base * 1.01^(s.exp), for an integer n
IntGeScaled(n, s) ==
    IF s.exp >= 0
    THEN n * Pow(100, s.exp) >= s.base * Pow(101, s.exp)
    ELSE n * Pow(101, -s.exp) >= s.base * Pow(100, -s.exp)

Whole(n) == [base |-> n, exp |-> 0]

-----------------------------------------------------------------------------
(* entity.rs *)

Animation_from_int(i) ==
    CASE i % 5 = 0 -> "Linear"
      [] i % 5 = 1 -> "VWave"
      [] i % 5 = 2 -> "Stream"
      [] i % 5 = 3 -> "DropTheBass"
      [] OTHER     -> "Linear"

\* Mutant of should_gate: DropTheBass is momentary
should_gate_no_bass(anim) == anim \in {"VWave", "Stream"}

should_gate(anim) == anim \in {"VWave", "Stream", "DropTheBass"}

Distance_from_int(i) ==
    CASE i % 6 = 0 -> "Euclidean"
      [] i % 6 = 1 -> "Chebyshev"
      [] i % 6 = 2 -> "Manhattan"
      [] i % 6 = 3 -> "Rook"
      [] i % 6 = 4 -> "Bishop"
      [] OTHER     -> "Euclidean"

\* f64::abs, and the square
Abs(n) == IF n < 0 THEN -n ELSE n
Sq(n) == n * n

\* Mutant of Distance_eval: Rook off the axes is the Manhattan distance
Distance_eval_rook_manhattan(d, x0, y0, x1, y1) ==
    LET dx == Abs(x1 - x0)
        dy == Abs(y1 - y0)
    IN  CASE d = "Euclidean" -> Sq(dx) + Sq(dy)
          [] d = "Chebyshev" -> Sq(IF dx >= dy THEN dx ELSE dy)
          [] d = "Manhattan" -> Sq(dx + dy)
          [] d = "Rook"      -> IF x0 = x1 THEN Sq(dy)
                                ELSE IF y0 = y1 THEN Sq(dx)
                                ELSE Sq(dx + dy)
          [] d = "Bishop"    -> IF dx = dy THEN Sq(dy) ELSE Sq(SENTINEL)

\* Distance::eval.  The f64 result r is kept as r * r, which is an integer in
\* every arm (the Euclidean arm is a square root); the results are never
\* negative, so comparing the squares compares the results.
Distance_eval(d, x0, y0, x1, y1) ==
    LET dx == Abs(x1 - x0)
        dy == Abs(y1 - y0)
    IN  CASE d = "Euclidean" -> Sq(dx) + Sq(dy)
          [] d = "Chebyshev" -> Sq(IF dx >= dy THEN dx ELSE dy)
          [] d = "Manhattan" -> Sq(dx + dy)
          [] d = "Rook"      -> IF x0 = x1 THEN Sq(dy)
                                ELSE IF y0 = y1 THEN Sq(dx)
                                ELSE Sq(SENTINEL)
          [] d = "Bishop"    -> IF dx = dy THEN Sq(dy) ELSE Sq(SENTINEL)

\* Entity::render, Stream: `if distance < 12.0`, on the squared distance
StreamInRange(d2) == d2 < Sq(STREAM_CUTOFF)

\* palette::Hsv::new(hue, 1.0, 0.5).into(): saturation and value are fixed, so
\* the colour is a function of the hue angle, which palette takes modulo 360
HsvColor(hue) == hue % 360

\* Mutant of Entity::new: t1 is the duration, not t + duration
Entity_new_t1_duration(config, t, x, y) ==
    [ kind     |-> Animation_from_int(config.kind),
      t0       |-> t,
      t1       |-> [at |-> 0, plus |-> config.duration],
      params   |-> config,
      gated    |-> should_gate(Animation_from_int(config.kind)),
      x        |-> x,
      y        |-> y,
      color    |-> HsvColor(config.hue),
      distance |-> Distance_from_int(config.distance) ]

\* Entity::new.  t1 = t + config.duration is kept as the pair (at, plus):
\* the tick `at` plus the scaled real `plus`.
Entity_new(config, t, x, y) ==
    [ kind     |-> Animation_from_int(config.kind),
      t0       |-> t,
      t1       |-> [at |-> t, plus |-> config.duration],
      params   |-> config,
      gated    |-> should_gate(Animation_from_int(config.kind)),
      x        |-> x,
      y        |-> y,
      color    |-> HsvColor(config.hue),
      distance |-> Distance_from_int(config.distance) ]

\* t >= e.t1
ReachedT1(e, t) == IntGeScaled(t - e.t1.at, e.t1.plus)

\* Mutants of is_dead: the gate forgotten; a strict comparison
is_dead_ungated(e, t) == ReachedT1(e, t)
is_dead_strict(e, t) == ~e.gated /\ ReachedT1(e, t - 1)

is_dead(e, t) == ~e.gated /\ ReachedT1(e, t)

\* Mutants of release: the release time forgotten; the guard forgotten
release_immediate(e, t) ==
    IF e.gated
    THEN [e EXCEPT !.t1 = [at |-> t, plus |-> Whole(0)], !.gated = FALSE]
    ELSE e
release_unguarded(e, t) ==
    [e EXCEPT !.t1 = [at |-> t + RELEASE_TIME, plus |-> Whole(0)], !.gated = FALSE]

release(e, t) ==
    IF e.gated
    THEN [e EXCEPT !.t1 = [at |-> t + RELEASE_TIME, plus |-> Whole(0)],
                   !.gated = FALSE]
    ELSE e

-----------------------------------------------------------------------------
(* main.rs: App *)

DefaultConfig ==
    [ hue |-> 0, kind |-> 0, duration |-> Whole(15), alpha |-> Whole(1),
      beta |-> 0, distance |-> 0 ]

\* BTreeMap::insert
Insert(m, k, v) == [i \in DOMAIN m \cup {k} |-> IF i = k THEN v ELSE m[i]]

\* BTreeMap::remove of every key in ks
RemoveAll(m, ks) == [i \in DOMAIN m \ ks |-> m[i]]

\* App::get_active_config: the table it leaves behind, and the value it returns
ActiveTable(table, active) ==
    IF active \in DOMAIN table THEN table ELSE Insert(table, active, DefaultConfig)

ActiveConfig(table, active) ==
    IF active \in DOMAIN table THEN table[active] ELSE DefaultConfig

\* Mutant of KnobKind: counter-clockwise stops at 0
KnobKind_saturating(kind, cw) ==
    IF cw THEN ((kind + 1) % U8) % NUM_ANIMATIONS
    ELSE IF kind > 0 THEN kind - 1
    ELSE 0

\* App::dispatch_knob, knob 14: the animation selector
KnobKind(kind, cw) ==
    IF cw THEN ((kind + 1) % U8) % NUM_ANIMATIONS
    ELSE IF kind > 0 THEN kind - 1
    ELSE NUM_ANIMATIONS - 1

\* App::dispatch_knob: the u8 additions and subtractions that leave 0..255
KnobOverflows(cfg, knob, cw) ==
    \/ knob = 3 /\ cw /\ cfg.distance = 0
    \/ knob = 9 /\ cw /\ cfg.distance = U8 - 1
    \/ knob = 14 /\ cw /\ cfg.kind = U8 - 1

\* Mutant of KnobEdit: the duration knob scales the thickness as well
KnobEdit_coupled(cfg, knob, cw) ==
    CASE knob = 3 /\ cw -> [cfg EXCEPT !.distance = (@ - 1) % U8]
      [] knob = 9 /\ cw -> [cfg EXCEPT !.distance = (@ + 1) % U8]
      [] knob = 14      -> [cfg EXCEPT !.kind = KnobKind(@, cw)]
      [] knob = 76      -> [cfg EXCEPT !.alpha = IF cw THEN ScaleUp(@) ELSE ScaleDown(@)]
      [] knob = 77      -> [cfg EXCEPT !.beta = IF cw THEN @ + 1 ELSE @ - 1]
      [] knob = 78      -> [cfg EXCEPT !.duration = IF cw THEN ScaleUp(@) ELSE ScaleDown(@),
                                       !.alpha = IF cw THEN ScaleUp(@) ELSE ScaleDown(@)]
      [] knob = 79      -> [cfg EXCEPT !.hue = IF cw THEN @ + 1 ELSE @ - 1]
      [] OTHER          -> cfg

\* App::dispatch_knob: the match on the knob index (overflow wraps, as in a
\* build without overflow checks)
KnobEdit(cfg, knob, cw) ==
    CASE knob = 3 /\ cw -> [cfg EXCEPT !.distance = (@ - 1) % U8]
      [] knob = 9 /\ cw -> [cfg EXCEPT !.distance = (@ + 1) % U8]
      [] knob = 14      -> [cfg EXCEPT !.kind = KnobKind(@, cw)]
      [] knob = 76      -> [cfg EXCEPT !.alpha = IF cw THEN ScaleUp(@) ELSE ScaleDown(@)]
      [] knob = 77      -> [cfg EXCEPT !.beta = IF cw THEN @ + 1 ELSE @ - 1]
      [] knob = 78      -> [cfg EXCEPT !.duration = IF cw THEN ScaleUp(@) ELSE ScaleDown(@)]
      [] knob = 79      -> [cfg EXCEPT !.hue = IF cw THEN @ + 1 ELSE @ - 1]
      [] OTHER          -> cfg

\* App::dispatch_knob: the table after the whole call
DispatchKnobTable(table, active, knob, cw) ==
    Insert(ActiveTable(table, active), active,
           KnobEdit(ActiveConfig(table, active), knob, cw))

\* Mutants of PressTable: a pad without an entry gets the default
\* configuration; assigning mode is ignored
PressTable_default(table, active, asg, i) ==
    LET t1 == ActiveTable(table, active)
        prev == ActiveConfig(table, active)
    IN  IF i \notin DOMAIN t1 THEN Insert(t1, i, DefaultConfig)
        ELSE IF asg THEN Insert(t1, i, prev) ELSE t1
PressTable_no_assigning(table, active, asg, i) ==
    LET t1 == ActiveTable(table, active)
        prev == ActiveConfig(table, active)
    IN  IF i \notin DOMAIN t1 THEN Insert(t1, i, prev) ELSE t1

\* App::handle, pad activation: the table after the (re)assignment of pad i
PressTable(table, active, asg, i) ==
    LET t1 == ActiveTable(table, active)
        prev == ActiveConfig(table, active)
    IN  IF i \notin DOMAIN t1 \/ asg THEN Insert(t1, i, prev) ELSE t1

\* Mutant of PressKey: every entity is keyed by its pad index
PressKey_pad_index(e, i, fresh) == i

\* App::handle, pad activation: the key the new entity is inserted under
PressKey(e, i, fresh) == IF e.gated THEN i ELSE fresh + 1

\* Mutant of PressFresh: the counter is not advanced
PressFresh_stuck(e, fresh) == fresh

\* App::handle, pad activation: fresh_entity_id after the press
PressFresh(e, fresh) == IF e.gated THEN fresh ELSE fresh + 1

\* Mutant of ReleaseEntities: the entity is removed at once
ReleaseEntities_remove(ents, i, t) == RemoveAll(ents, {i})

\* App::handle, pad release: the live set after NoteOff of pad i at tick t
ReleaseEntities(ents, i, t) ==
    IF i \in DOMAIN ents THEN Insert(ents, i, release(ents[i], t)) ELSE ents

\* Mutant of DeadKeys: nothing is retired in assigning mode
DeadKeys_not_assigning(ents, t) ==
    IF assigning THEN {} ELSE {k \in DOMAIN ents : is_dead(ents[k], t)}

\* App::step: the keys the retiring loop removes at tick t
DeadKeys(ents, t) == {k \in DOMAIN ents : is_dead(ents[k], t)}

-----------------------------------------------------------------------------
(* MIDI messages, as midly decodes them: num is the controller or key       *)
(* number, val the controller value or velocity                             *)

Pads == {0, 9}
PadKeys == {PAD_KEY_MIN + p : p \in Pads}
KnobControllers == {3, 9, 14, 72, 76, 77, 78, 79}

Msg(t, n, v) == [type |-> t, num |-> n, val |-> v]

Messages ==
    {Msg("Controller", c, v) : c \in KnobControllers \cup {ASSIGN_CONTROLLER},
                               v \in {1, CW_OFF}}
    \cup {Msg("NoteOn", KNOB_TOUCH_MAX, v) : v \in {0, 127}}
    \cup {Msg("NoteOn", k, 100) : k \in PadKeys}
    \cup {Msg("NoteOff", k, 0) : k \in PadKeys}
    \cup {Msg("Aftertouch", PAD_KEY_MIN, 1), Msg("PitchBend", 0, 0)}

IsKnobRotation(m) ==
    /\ m.type = "Controller"
    /\ (m.num = 14 \/ m.num = 3 \/ m.num = 9 \/ (m.num >= 72 /\ m.num <= 79))

IsKnobTouch(m) == m.type = "NoteOn" /\ m.num >= 0 /\ m.num <= KNOB_TOUCH_MAX

IsPadActivation(m) ==
    m.type = "NoteOn" /\ m.num >= PAD_KEY_MIN /\ m.num <= PAD_KEY_MAX

IsPadRelease(m) ==
    m.type = "NoteOff" /\ m.num >= PAD_KEY_MIN /\ m.num <= PAD_KEY_MAX

IsAssignMode(m) == m.type = "Controller" /\ m.num = ASSIGN_CONTROLLER

-----------------------------------------------------------------------------
(* main.rs: the arms of App::handle.  Each leaves event and handled to the  *)
(* caller.                                                                  *)

\* Mutant of KnobRotation: the edit reaches the live entities of the active pad
KnobRotation_live(m) ==
    LET cw == m.val # CW_OFF
        cfg == ActiveConfig(assignments, active_config)
    IN  /\ IsKnobRotation(m)
        /\ \/ /\ KnobOverflows(cfg, m.num, cw)
              /\ panicked' = TRUE
              /\ assignments' = ActiveTable(assignments, active_config)
              /\ entities' = entities
           \/ /\ panicked' = panicked
              /\ assignments' =
                     DispatchKnobTable(assignments, active_config, m.num, cw)
              /\ entities' =
                     [k \in DOMAIN entities |->
                         IF entities[k].x + GRID * entities[k].y = active_config
                         THEN [entities[k] EXCEPT
                                  !.params = KnobEdit(cfg, m.num, cw)]
                         ELSE entities[k]]
        /\ UNCHANGED <<fresh_entity_id, tick, active_config,
                       assigning, focused_knobs>>

\* Knob rotation: dispatch_knob(controller, value != 127).  A u8 operation that
\* leaves 0..255 panics where the build checks overflow (the dev profile) and
\* wraps where it does not (the release profile): either outcome is taken.
KnobRotation(m) ==
    LET cw == m.val # CW_OFF
        cfg == ActiveConfig(assignments, active_config)
    IN  /\ IsKnobRotation(m)
        /\ \/ /\ KnobOverflows(cfg, m.num, cw)
              /\ panicked' = TRUE
              /\ assignments' = ActiveTable(assignments, active_config)
           \/ /\ panicked' = panicked
              /\ assignments' =
                     DispatchKnobTable(assignments, active_config, m.num, cw)
        /\ UNCHANGED <<entities, fresh_entity_id, tick, active_config,
                       assigning, focused_knobs>>

KnobTouch(m) ==
    /\ IsKnobTouch(m)
    /\ focused_knobs' = IF m.val = 127 THEN focused_knobs \cup {m.num}
                        ELSE focused_knobs \ {m.num}
    /\ UNCHANGED <<entities, fresh_entity_id, tick, assignments, active_config,
                   assigning, panicked>>

PadActivation(m) ==
    LET i == m.num - PAD_KEY_MIN
        x == i % GRID
        y == i \div GRID
        table == PressTable(assignments, active_config, assigning, i)
        cfg == ActiveConfig(table, i)
        e == Entity_new(cfg, tick, x, y)
    IN  /\ IsPadActivation(m)
        /\ assignments' = ActiveTable(table, i)
        /\ active_config' = i
        /\ fresh_entity_id' = PressFresh(e, fresh_entity_id)
        /\ entities' = Insert(entities, PressKey(e, i, fresh_entity_id), e)
        /\ UNCHANGED <<tick, assigning, focused_knobs, panicked>>

PadRelease(m) ==
    /\ IsPadRelease(m)
    /\ entities' = ReleaseEntities(entities, m.num - PAD_KEY_MIN, tick)
    /\ UNCHANGED <<fresh_entity_id, tick, assignments, active_config, assigning,
                   focused_knobs, panicked>>

\* Mutant of AssignMode: the control toggles the flag
AssignMode_toggle(m) ==
    /\ IsAssignMode(m)
    /\ assigning' = ~assigning
    /\ UNCHANGED <<entities, fresh_entity_id, tick, assignments, active_config,
                   focused_knobs, panicked>>

\* App::handle, assign mode: `self.assigning = value == u7::new(127)`
AssignMode(m) ==
    /\ IsAssignMode(m)
    /\ assigning' = (m.val = 127)
    /\ UNCHANGED <<entities, fresh_entity_id, tick, assignments, active_config,
                   focused_knobs, panicked>>

\* Aftertouch, and every message no earlier arm takes (printed only)
Ignored(m) ==
    /\ ~IsKnobRotation(m) /\ ~IsKnobTouch(m) /\ ~IsPadActivation(m)
    /\ ~IsPadRelease(m) /\ ~IsAssignMode(m)
    /\ UNCHANGED <<entities, fresh_entity_id, tick, assignments, active_config,
                   assigning, focused_knobs, panicked>>

-----------------------------------------------------------------------------
(* main.rs: main *)

\* config.yaml as read at startup: some parameter tables the file can hold
InitTables ==
    { <<>>,
      [p \in {0} |-> [DefaultConfig EXCEPT !.kind = 1, !.hue = 240]],
      [p \in {0, 9} |->
          IF p = 0 THEN [DefaultConfig EXCEPT !.kind = 4, !.duration = Whole(2)]
          ELSE [DefaultConfig EXCEPT !.kind = 3, !.hue = 120,
                                      !.duration = Whole(3)]] }

\* No message: the value of `event` outside the drain loop
NoEvent == Msg("None", 0, 0)

\* No call of a pure function is being looked at
NoProbe == [fn |-> "none", args |-> <<>>, out |-> <<>>]

Init ==
    /\ entities = <<>>
    /\ fresh_entity_id = FIRST_ENTITY_ID
    /\ tick = 0
    /\ assignments \in InitTables
    /\ active_config = 0
    /\ assigning = FALSE
    /\ focused_knobs = {}
    /\ event = NoEvent
    /\ handled = 0
    /\ panicked = FALSE
    /\ autosave = 0
    /\ save_result = "none"
    /\ exited = FALSE
    /\ queue = <<>>
    /\ sent_log = <<>>
    /\ applied = <<>>
    /\ pc = "drain"
    /\ probe = NoProbe

\* App::handle: the match on the message
App_handle(m) ==
    \/ KnobRotation(m)
    \/ KnobTouch(m)
    \/ PadActivation(m)
    \/ PadRelease(m)
    \/ AssignMode(m)
    \/ Ignored(m)

\* One turn of `for event in rx.try_iter() { app.handle(event) }`: the channel
\* yields m and App::handle takes it
Handle(m) ==
    /\ ~panicked /\ ~exited
    /\ handled < MaxEvents
    /\ event' = m
    /\ handled' = handled + 1
    /\ App_handle(m)
    /\ UNCHANGED <<autosave, save_result, exited, queue, sent_log, applied,
                   pc, probe>>

\* main: `autosave += 1; if autosave % 30 == 0 { app.save()?; }`.  save creates
\* and writes config.yaml; the file system lets it succeed or fail, and `?`
\* makes main return the error.
Autosave ==
    /\ autosave' = autosave + 1
    /\ IF (autosave + 1) % AUTOSAVE_PERIOD = 0
       THEN \E ok \in BOOLEAN :
               /\ save_result' = IF ok THEN "ok" ELSE "err"
               /\ exited' = ~ok
       ELSE UNCHANGED <<save_result, exited>>

\* The rest of the loop body once try_iter finds the channel empty:
\* update_display (which calls get_active_config), step, and the autosave
Iteration ==
    /\ event' = NoEvent
    /\ assignments' = ActiveTable(assignments, active_config)
    /\ entities' = RemoveAll(entities, DeadKeys(entities, tick))
    /\ tick' = tick + 1
    /\ Autosave
    /\ UNCHANGED <<fresh_entity_id, active_config, assigning, focused_knobs,
                   handled, panicked, queue, sent_log, applied, pc, probe>>

Frame ==
    /\ ~panicked /\ ~exited
    /\ tick < MaxTick
    /\ Iteration

Next ==
    \/ \E m \in Messages : Handle(m)
    \/ Frame

Spec == Init /\ [][Next]_vars

-----------------------------------------------------------------------------
(* main.rs: main, run long enough for the autosave to come due *)

FrameLong ==
    /\ ~panicked /\ ~exited
    /\ tick < MaxLongTick
    /\ Iteration

NextLong ==
    \/ \E m \in Messages : Handle(m)
    \/ FrameLong

SpecLong == Init /\ [][NextLong]_vars

-----------------------------------------------------------------------------
(* main.rs: main with the channel and the two threads.  The input callback  *)
(* (the thread of the MIDI transport) sends; the main thread receives with  *)
(* try_iter, and between update_display and the end of App::step it is in   *)
(* the render pass, where it receives nothing.                              *)

\* The messages the transport delivers here: one or two of each arm of handle
LoopMessages ==
    { Msg("Controller", ASSIGN_CONTROLLER, CW_OFF),
      Msg("Controller", 14, 1),
      Msg("NoteOn", PAD_KEY_MIN, 100),
      Msg("NoteOn", PAD_KEY_MIN + 9, 100),
      Msg("NoteOff", PAD_KEY_MIN + 9, 0),
      Msg("NoteOn", KNOB_TOUCH_MAX, 127),
      Msg("Aftertouch", PAD_KEY_MIN, 1) }

\* Mutant of Recv: the newest message is received first
Recv_lifo(q) == [msg |-> q[Len(q)], rest |-> SubSeq(q, 1, Len(q) - 1)]

\* mpsc: what the receiver takes from a channel holding q, and what is left
Recv(q) == [msg |-> Head(q), rest |-> Tail(q)]

\* The input callback: tx.send(message)
Send(m) ==
    /\ ~panicked /\ ~exited
    /\ Len(sent_log) < MaxEvents
    /\ queue' = Append(queue, m)
    /\ sent_log' = Append(sent_log, m)
    /\ UNCHANGED <<entities, fresh_entity_id, tick, assignments, active_config,
                   assigning, focused_knobs, event, handled, panicked,
                   autosave, save_result, exited, applied, pc, probe>>

\* One turn of the drain loop: try_iter yields the next message of the channel
\* and App::handle takes it
Drain ==
    /\ ~panicked /\ ~exited
    /\ pc = "drain"
    /\ queue # <<>>
    /\ event' = Recv(queue).msg
    /\ queue' = Recv(queue).rest
    /\ handled' = handled + 1
    /\ applied' = Append(applied, Recv(queue).msg)
    /\ App_handle(Recv(queue).msg)
    /\ UNCHANGED <<autosave, save_result, exited, sent_log, pc, probe>>

\* try_iter finds the channel empty; update_display (get_active_config) runs
\* and App::step begins its pass over the cells
UpdateDisplay ==
    /\ ~panicked /\ ~exited
    /\ pc = "drain"
    /\ queue = <<>>
    /\ tick < MaxTick
    /\ event' = NoEvent
    /\ assignments' = ActiveTable(assignments, active_config)
    /\ pc' = "render"
    /\ UNCHANGED <<entities, fresh_entity_id, tick, active_config, assigning,
                   focused_knobs, handled, panicked, autosave, save_result,
                   exited, queue, sent_log, applied, probe>>

\* The rest of App::step (the pass is over: retire, tick += 1), and the autosave
Step ==
    /\ ~panicked /\ ~exited
    /\ pc = "render"
    /\ entities' = RemoveAll(entities, DeadKeys(entities, tick))
    /\ tick' = tick + 1
    /\ Autosave
    /\ pc' = "drain"
    /\ UNCHANGED <<fresh_entity_id, assignments, active_config, assigning,
                   focused_knobs, event, handled, panicked, queue, sent_log,
                   applied, probe>>

NextLoop ==
    \/ \E m \in LoopMessages : Send(m)
    \/ Drain
    \/ UpdateDisplay
    \/ Step

SpecLoop == Init /\ [][NextLoop]_vars

-----------------------------------------------------------------------------
(* entity.rs: the pure functions, called on every argument.  A probe holds  *)
(* the function, its arguments, and its result once it has been called.     *)

Metrics == {"Euclidean", "Chebyshev", "Manhattan", "Rook", "Bishop"}
Coords == 0 .. (GRID - 1)
Selectors == 0 .. (U8 - 1)

Probes ==
    {[fn |-> "Distance::eval", args |-> <<d, x0, y0, x1, y1>>, out |-> <<>>] :
        d \in Metrics, x0 \in Coords, y0 \in Coords, x1 \in Coords, y1 \in Coords}
    \cup
    {[fn |-> "Entity::new", args |-> <<i>>, out |-> <<>>] : i \in Selectors}

\* The call: Distance::eval as render calls it, or Entity::new on a
\* configuration with the selector as its kind (the variant and the gated flag
\* of the new entity are kept)
ProbeResult(p) ==
    IF p.fn = "Distance::eval"
    THEN Distance_eval(p.args[1], p.args[2], p.args[3], p.args[4], p.args[5])
    ELSE LET e == Entity_new([DefaultConfig EXCEPT !.kind = p.args[1]], 0, 0, 0)
         IN  [kind |-> e.kind, gated |-> e.gated]

InitPure ==
    /\ entities = <<>>
    /\ fresh_entity_id = FIRST_ENTITY_ID
    /\ tick = 0
    /\ assignments = <<>>
    /\ active_config = 0
    /\ assigning = FALSE
    /\ focused_knobs = {}
    /\ event = NoEvent
    /\ handled = 0
    /\ panicked = FALSE
    /\ autosave = 0
    /\ save_result = "none"
    /\ exited = FALSE
    /\ queue = <<>>
    /\ sent_log = <<>>
    /\ applied = <<>>
    /\ pc = "drain"
    /\ probe \in Probes

Evaluate ==
    /\ probe.fn # "none"
    /\ probe.out = <<>>
    /\ probe' = [probe EXCEPT !.out = <<ProbeResult(probe)>>]
    /\ UNCHANGED <<entities, fresh_entity_id, tick, assignments, active_config,
                   assigning, focused_knobs, event, handled, panicked,
                   autosave, save_result, exited, queue, sent_log, applied, pc>>

NextPure == Evaluate

SpecPure == InitPure /\ [][NextPure]_vars

-----------------------------------------------------------------------------
(* Vocabulary of the properties *)

PadIndexes == 0 .. (GRID * GRID - 1)

\* This step is the main loop handling message m (one turn of the drain loop)
Handles(m) == handled' = handled + 1 /\ event' = m

\* This step is the handling of a press / a release of pad p
Presses(p) == \E m \in Messages : Handles(m) /\ IsPadActivation(m) /\ m.num - PAD_KEY_MIN = p
Releases(p) == \E m \in Messages : Handles(m) /\ IsPadRelease(m) /\ m.num - PAD_KEY_MIN = p

\* This step is a frame step
FrameStep == tick' = tick + 1

\* The configuration resolves to a gated (sustain) animation
GatedConfig(cfg) == cfg.kind % 5 \in {1, 2, 3}

\* Keys of the live set that are pad indexes / fresh identities
PadKeyed(ents) == DOMAIN ents \cap PadIndexes
FreshKeyed(ents) == DOMAIN ents \ PadIndexes

\* t1 as release writes it at tick r: r + 5
ReleasedT1(r) == [at |-> r + 5, plus |-> [base |-> 0, exp |-> 0]]

-----------------------------------------------------------------------------
(* C1 *)

\* C1 (as stated): a pad-keyed entity that has been released is in the live set
\* only while fewer than 5 frame steps have run since its release, i.e. 5
\* frame steps after the release it is gone.
C1_RemovedAfterFiveSteps ==
    \A p \in PadKeyed(entities) :
        ~entities[p].gated => tick - (entities[p].t1.at - 5) < 5

\* C1 (amended): for a pad whose configuration resolves to a gated animation,
\* after the press is handled the entity keyed at the pad index is gated, is not
\* dead at any tick, and every frame step leaves it in the live set unchanged;
\* after the release handled at tick r it has t1 = r + 5, the frame steps run at
\* ticks r .. r + 4 (five of them) leave it in the live set, and the frame step
\* run at tick r + 5 (the sixth) removes it.
C1_SustainEndToEnd ==
    [][ /\ \A p \in Pads :
              Presses(p) /\ GatedConfig(assignments'[p]) =>
                  p \in DOMAIN entities' /\ entities'[p].gated
        /\ \A p \in PadKeyed(entities) :
              /\ entities[p].gated =>
                   /\ ~is_dead(entities[p], tick)
                   /\ FrameStep => p \in DOMAIN entities' /\ entities'[p] = entities[p]
                   /\ Releases(p) => /\ p \in DOMAIN entities'
                                     /\ ~entities'[p].gated
                                     /\ entities'[p].t1 = ReleasedT1(tick)
              /\ ~entities[p].gated =>
                   /\ entities[p].t1.plus.base = 0
                   /\ entities[p].t1.at - 5 <= tick /\ tick <= entities[p].t1.at
                   /\ FrameStep /\ tick < entities[p].t1.at =>
                          p \in DOMAIN entities' /\ entities'[p] = entities[p]
                   /\ FrameStep /\ tick = entities[p].t1.at => p \notin DOMAIN entities'
      ]_vars

\* Pad 9, configured gated, was pressed and released and no other message was
\* handled; its entity is gone
C1_Witness ==
    /\ active_config = 9
    /\ 9 \in DOMAIN assignments /\ GatedConfig(assignments[9])
    /\ handled = 2 /\ event = NoEvent
    /\ entities = <<>>
    /\ tick >= 6

-----------------------------------------------------------------------------
(* C2 *)

\* C2: a momentary entity spawned at tick T with duration d has t1 = T + d; no
\* message handling removes or changes it; a frame step run at a tick below
\* T + d leaves it in the live set, and the first frame step run at a tick
\* >= T + d removes it (so it is never in the live set once a frame step has run
\* at a tick >= T + d).
C2_MomentaryEndToEnd ==
    [][ \A k \in FreshKeyed(entities) :
          LET e == entities[k]
              d == e.params.duration
          IN  /\ ~e.gated
              /\ e.t1 = [at |-> e.t0, plus |-> d]
              /\ d.exp = 0 => tick - 1 < e.t0 + d.base
              /\ ~FrameStep => k \in DOMAIN entities' /\ entities'[k] = e
              /\ FrameStep /\ d.exp = 0 /\ tick < e.t0 + d.base =>
                     k \in DOMAIN entities' /\ entities'[k] = e
              /\ FrameStep /\ d.exp = 0 /\ tick >= e.t0 + d.base =>
                     k \notin DOMAIN entities'
              /\ FrameStep /\ d.exp > 0 /\ d.base > 0 /\ tick <= e.t0 + d.base =>
                     k \in DOMAIN entities'
              /\ FrameStep /\ d.exp < 0 /\ d.base > 0 /\ tick >= e.t0 + d.base =>
                     k \notin DOMAIN entities'
      ]_vars

\* The only message was a press, at tick 1 or later, of pad 0 with its
\* momentary configuration of duration 2 from the file; the entity is gone
C2_Witness ==
    /\ handled = 1
    /\ fresh_entity_id = FIRST_ENTITY_ID + 1
    /\ active_config = 0
    /\ 0 \in DOMAIN assignments
    /\ assignments[0].duration = [base |-> 2, exp |-> 0]
    /\ entities = <<>>
    /\ tick >= 4

-----------------------------------------------------------------------------
(* C3 *)

\* C3: whatever the step, an entity whose gated flag is true stays in the live
\* set: a frame step leaves it as it is, and any other step leaves it as it is,
\* or is the release of its pad (which clears gated), or is a new press of its
\* pad (which replaces it).
C3_GatedNeverExpires ==
    [][ \A k \in DOMAIN entities :
           entities[k].gated =>
               /\ k \in DOMAIN entities'
               /\ \/ entities'[k] = entities[k]
                  \/ ~FrameStep /\ Releases(k) /\ ~entities'[k].gated
                  \/ ~FrameStep /\ Presses(k) /\ entities'[k].t0 = tick
      ]_vars

\* A gated entity is live at a tick past t0 + duration
C3_Witness ==
    \E k \in DOMAIN entities :
        /\ entities[k].gated
        /\ entities[k].params.duration.exp = 0
        /\ tick > entities[k].t0 + entities[k].params.duration.base

-----------------------------------------------------------------------------
(* C4 *)

\* The entity a press of pad p at the current tick spawns from cfg is in ents
\* under a key that is p or was not in use
SpawnedFrom(ents, old, p, cfg, t) ==
    \E k \in DOMAIN ents :
        /\ k = p \/ k \notin DOMAIN old
        /\ ents[k].params = cfg
        /\ ents[k].t0 = t
        /\ ents[k].x = p % 8
        /\ ents[k].y = p \div 8

\* The configuration of the active pad, the default if it has none
PrevConfig ==
    IF active_config \in DOMAIN assignments THEN assignments[active_config]
    ELSE [hue |-> 0, kind |-> 0, duration |-> [base |-> 15, exp |-> 0],
          alpha |-> [base |-> 1, exp |-> 0], beta |-> 0, distance |-> 0]

\* C4 (as stated): a press of a pad with no table entry gives that pad the
\* default configuration (animationSelector 0, hue 0, duration 15, thickness 1,
\* rate 0, distanceSelector 0), whatever the active pad's configuration is, and
\* inserts a live entity spawned from it at (index mod 8, index div 8).
C4_PressCreatesDefault ==
    [][ \A p \in Pads :
          Presses(p) /\ p \notin DOMAIN assignments =>
              /\ p \in DOMAIN assignments'
              /\ assignments'[p] =
                     [hue |-> 0, kind |-> 0, duration |-> [base |-> 15, exp |-> 0],
                      alpha |-> [base |-> 1, exp |-> 0], beta |-> 0, distance |-> 0]
              /\ SpawnedFrom(entities', entities, p, assignments'[p], tick)
      ]_vars

\* C4 (amended): a press of a pad with no table entry gives that pad a copy of
\* the configuration of the pad that was active before the press (the default
\* configuration if that pad has no entry either, in particular if it is the
\* pressed pad itself), and inserts a live entity spawned from it at
\* (index mod 8, index div 8).
C4_PressCopiesActive ==
    [][ \A p \in Pads :
          Presses(p) /\ p \notin DOMAIN assignments =>
              /\ p \in DOMAIN assignments'
              /\ assignments'[p] = PrevConfig
              /\ SpawnedFrom(entities', entities, p, assignments'[p], tick)
      ]_vars

\* Pad 0 (active at startup, hue 240 in the file) was active when pad 9, which
\* had no entry, was pressed: pad 9 now holds pad 0's configuration, not the
\* default, and a live entity spawned from it at (1,1)
C4_Witness ==
    /\ handled = 1
    /\ active_config = 9
    /\ 9 \in DOMAIN assignments /\ assignments[9].hue = 240
    /\ 9 \in DOMAIN entities
    /\ entities[9].params = assignments[9]
    /\ entities[9].x = 1 /\ entities[9].y = 1

-----------------------------------------------------------------------------
(* C5 *)

\* C5: on a press of pad p: if p has no table entry or assigning mode is on,
\* table[p] afterwards is the configuration the active pad had just before the
\* press (the default if it had none); if p has an entry and assigning mode is
\* off, table[p] is unchanged; in every case p becomes the active pad and the
\* spawned entity's params are table[p] after the press.
C5_PressAssigns ==
    [][ \A p \in Pads :
          Presses(p) =>
              /\ p \in DOMAIN assignments'
              /\ p \notin DOMAIN assignments \/ assigning =>
                     assignments'[p] = PrevConfig
              /\ p \in DOMAIN assignments /\ ~assigning =>
                     assignments'[p] = assignments[p]
              /\ active_config' = p
              /\ SpawnedFrom(entities', entities, p, assignments'[p], tick)
      ]_vars

\* In assigning mode pad 9, which had its own entry, was pressed while pad 0
\* (duration 2 in the file) was active: pad 9 now holds pad 0's configuration
C5_Witness ==
    /\ assigning
    /\ active_config = 9
    /\ 9 \in DOMAIN assignments /\ assignments[9].duration = [base |-> 2, exp |-> 0]
    /\ 0 \in DOMAIN assignments /\ assignments[9] = assignments[0]
    /\ \E k \in DOMAIN entities :
          entities[k].params = assignments[9] /\ entities[k].x = 1 /\ entities[k].y = 1

-----------------------------------------------------------------------------
(* C6 *)

\* C6: every key of the live set is a pad index or a fresh identity handed out
\* so far; a press of a pad whose configuration is gated puts its entity under
\* the pad index, replacing the entity already there if there is one (the live
\* set keeps its keys, so its size) and leaving every other entity alone; a
\* press of a pad whose configuration is momentary adds one entity under a key
\* above every identity handed out so far and leaves every entity in place;
\* the identity counter never decreases.
C6_OneEntityPerSlot ==
    [][ /\ \A k \in FreshKeyed(entities) :
              FIRST_ENTITY_ID < k /\ k <= fresh_entity_id
        /\ fresh_entity_id' >= fresh_entity_id
        /\ \A p \in Pads :
              Presses(p) =>
                  IF GatedConfig(assignments'[p])
                  THEN /\ DOMAIN entities' = DOMAIN entities \cup {p}
                       /\ p \in DOMAIN entities =>
                              Cardinality(DOMAIN entities') = Cardinality(DOMAIN entities)
                       /\ entities'[p].gated /\ entities'[p].t0 = tick
                       /\ \A j \in DOMAIN entities \ {p} : entities'[j] = entities[j]
                  ELSE /\ \E k \in DOMAIN entities' \ DOMAIN entities :
                              /\ DOMAIN entities' = DOMAIN entities \cup {k}
                              /\ k > fresh_entity_id
                              /\ k \notin PadIndexes
                              /\ ~entities'[k].gated
                       /\ Cardinality(DOMAIN entities') = Cardinality(DOMAIN entities) + 1
                       /\ \A j \in DOMAIN entities : entities'[j] = entities[j]
      ]_vars

\* The same momentary pad was pressed twice: two entities with the same origin
\* are live under two different fresh identities
C6_Witness ==
    /\ Cardinality(FreshKeyed(entities)) = 2
    /\ \A j, k \in FreshKeyed(entities) :
          entities[j].x = entities[k].x /\ entities[j].y = entities[k].y

-----------------------------------------------------------------------------
(* C7 *)

\* C7: a release of pad p changes at most the entity keyed at pad index p: if
\* it is gated it becomes the same entity with gated cleared and t1 = tick + 5;
\* if it is not gated, or no entity is keyed at p, the live set is unchanged;
\* every other live entity, the parameter table, the active pad, the assigning
\* flag, the tick counter and the identity counter are unchanged.
C7_ReleaseOnlyOwnPad ==
    [][ \A p \in Pads :
          Releases(p) =>
              /\ DOMAIN entities' = DOMAIN entities
              /\ \A k \in DOMAIN entities \ {p} : entities'[k] = entities[k]
              /\ p \in DOMAIN entities /\ entities[p].gated =>
                     entities'[p] = [entities[p] EXCEPT !.gated = FALSE,
                                                        !.t1 = ReleasedT1(tick)]
              /\ p \in DOMAIN entities /\ ~entities[p].gated =>
                     entities'[p] = entities[p]
              /\ UNCHANGED <<assignments, active_config, assigning, tick,
                             fresh_entity_id>>
      ]_vars

\* The entity keyed at pad 9 has just been released, some ticks after its spawn
C7_Witness ==
    /\ 9 \in DOMAIN entities
    /\ ~entities[9].gated
    /\ entities[9].t1 = ReleasedT1(tick)
    /\ entities[9].t0 < tick

-----------------------------------------------------------------------------
(* C8 *)

\* C8: for every live entity e, the current tick a and later ticks b,
\* release(a) then release(b) leaves e as release(a) alone does (same t1, gated
\* false); release of an entity that is already non-gated changes nothing, and
\* release(a) of a gated one sets t1 = a + 5.
C8_ReleaseIdempotent ==
    \A k \in DOMAIN entities :
        \A b \in {tick, tick + 1, tick + 5, MaxTick + 1} :
            LET e == entities[k]
                once == release(e, tick)
                twice == release(once, b)
            IN  /\ twice = once
                /\ twice.t1 = once.t1 /\ ~twice.gated
                /\ ~e.gated => once = e
                /\ e.gated => once.t1 = ReleasedT1(tick)

\* A released entity is live at a tick after its release: a second release now
\* would come with a later tick
C8_Witness ==
    \E k \in DOMAIN entities :
        /\ ~entities[k].gated
        /\ entities[k].t1.plus.base = 0
        /\ entities[k].t1.at - 5 < tick
        /\ tick < entities[k].t1.at

-----------------------------------------------------------------------------
(* C9 *)

\* The ticks C9 is evaluated at for entity e in the current state: the current
\* tick, the ticks around t0 + duration, around t1 and around tick + 5
C9_Ticks(e) ==
    LET d == e.params.duration.base
    IN  {0, tick, tick + 4, tick + 5, tick + 6,
         e.t0 + d - 1, e.t0 + d, e.t0 + d + 1,
         e.t1.at - 1, e.t1.at, e.t1.at + 1}

\* C9: for every live entity: a momentary entity spawned at t0 with duration d
\* is dead at t exactly when t >= t0 + d (for a duration of base * 1.01^n with
\* 0 < n <= 3 and base <= 15 that is t >= t0 + base + 1, with -3 <= n < 0 it is
\* t >= t0 + base); a gated entity is dead at no t, and once released at tick r
\* (the current tick) it is dead at t exactly when t >= r + 5; a released
\* entity is dead at t exactly when t >= its t1.
C9_IsDead ==
    \A k \in DOMAIN entities :
        \A t \in C9_Ticks(entities[k]) :
            LET e == entities[k]
                d == e.params.duration
            IN  /\ e.gated =>
                    /\ ~is_dead(e, t)
                    /\ is_dead(release(e, tick), t) <=> t >= tick + 5
                /\ k \notin PadIndexes /\ d.exp = 0 =>
                      (is_dead(e, t) <=> t >= e.t0 + d.base)
                /\ k \notin PadIndexes /\ d.exp \in 1 .. 3 /\ d.base \in 1 .. 15 =>
                      (is_dead(e, t) <=> t >= e.t0 + d.base + 1)
                /\ k \notin PadIndexes /\ d.exp \in -3 .. -1 /\ d.base \in 1 .. 15 =>
                      (is_dead(e, t) <=> t >= e.t0 + d.base)
                /\ k \in PadIndexes /\ ~e.gated =>
                      (is_dead(e, t) <=> t >= e.t1.at)

\* A momentary entity is live at the tick t0 + duration exactly: is_dead has
\* just become true of it
C9_Witness ==
    \E k \in FreshKeyed(entities) :
        /\ entities[k].params.duration.exp = 0
        /\ tick = entities[k].t0 + entities[k].params.duration.base
        /\ entities[k].t0 > 0

-----------------------------------------------------------------------------
(* C10 *)

\* C10: a turn of the animation knob (controller 14) moves the active pad's
\* animationSelector by one modulo the variant count: clockwise from
\* variantCount - 1 to 0, counter-clockwise from 0 to variantCount - 1; with the
\* selectors of the table starting in 0 .. variantCount - 1, every selector of
\* the table stays in 0 .. variantCount - 1.
C10_AnimationKnobWraps ==
    [][ /\ \A p \in DOMAIN assignments' :
              assignments'[p].kind \in 0 .. (NUM_ANIMATIONS - 1)
        /\ \A m \in Messages :
              Handles(m) /\ m.type = "Controller" /\ m.num = 14 =>
                  /\ active_config \in DOMAIN assignments'
                  /\ assignments'[active_config].kind =
                        IF m.val # 127
                        THEN (IF PrevConfig.kind = NUM_ANIMATIONS - 1 THEN 0
                              ELSE PrevConfig.kind + 1)
                        ELSE (IF PrevConfig.kind = 0 THEN NUM_ANIMATIONS - 1
                              ELSE PrevConfig.kind - 1)
      ]_vars

\* Starting with no table entry (selector 0), one counter-clockwise turn of the
\* animation knob: the selector is variantCount - 1
C10_Witness ==
    /\ handled = 1
    /\ DOMAIN assignments = {0}
    /\ assignments[0].hue = 0
    /\ assignments[0].kind = NUM_ANIMATIONS - 1

-----------------------------------------------------------------------------
(* C11 *)

\* C11 (as stated): every assign-mode control event handled changes assigning
\* to the opposite of its current value, and no other step changes assigning.
C11_AssignFlips ==
    [][ /\ \A m \in Messages :
              Handles(m) /\ IsAssignMode(m) => assigning' = ~assigning
        /\ assigning' # assigning =>
              \E m \in Messages : Handles(m) /\ IsAssignMode(m)
      ]_vars

\* C11 (amended): every assign-mode control event handled sets assigning to
\* "the value is 127" (TRUE for the press, FALSE for any other value), whatever
\* assigning was before; no other step changes assigning.
C11_AssignFollowsValue ==
    [][ /\ \A m \in Messages :
              Handles(m) /\ IsAssignMode(m) => assigning' = (m.val = CW_OFF)
        /\ assigning' # assigning =>
              \E m \in Messages : Handles(m) /\ IsAssignMode(m)
      ]_vars

\* The assign-mode control with value 127 has been handled twice: assigning is
\* TRUE (a flip would have made it FALSE again)
C11_Witness ==
    /\ handled = 2
    /\ event = Msg("Controller", ASSIGN_CONTROLLER, CW_OFF)
    /\ assigning
    /\ tick = 0
    /\ entities = <<>>
    /\ assignments = <<>>

-----------------------------------------------------------------------------
(* C12 *)

\* C12 (as stated): a failed autosave does not interrupt the render loop: once
\* app.save() has returned an error, main has not returned, and the loop can
\* still run the next frame step.
C12_SaveFailureKeepsLoop ==
    save_result = "err" =>
        /\ ~exited
        /\ tick < MaxLongTick => ENABLED FrameLong

-----------------------------------------------------------------------------
(* C13 *)

\* C13 (as stated): whatever messages the channel has yielded so far, the drain
\* of an iteration ends and the loop reaches its frame step: in every reachable
\* state short of the tick bound the frame step can be taken next, so the tick
\* keeps increasing.
C13_FrameStepAlwaysReached ==
    tick < MaxLongTick => ENABLED FrameLong

-----------------------------------------------------------------------------
(* C14 *)

\* This step is the main thread entering the render pass / ending App::step
RenderBegins == pc = "drain" /\ pc' = "render"
StepEnds == pc = "render" /\ pc' = "drain"

\* C14: the messages App::handle has been called with, followed by the
\* messages still in the channel, are exactly the messages the callback sent,
\* in the order it sent them (each applied once, in arrival order); a message is
\* applied only in the drain, and when the render pass begins every message
\* sent so far has been applied; while the render pass is in progress no step
\* changes the live set or the parameter table (the callback can only enqueue).
C14_AppliedOnceInOrder ==
    [][ /\ sent_log' = applied' \o queue'
        /\ handled' = Len(applied')
        /\ applied' # applied =>
              /\ pc = "drain" /\ pc' = "drain"
              /\ queue # <<>>
              /\ applied' = Append(applied, Head(queue))
              /\ Handles(Head(queue))
        /\ RenderBegins => applied = sent_log /\ UNCHANGED <<applied, entities>>
        /\ pc = "render" /\ pc' = "render" =>
              UNCHANGED <<entities, assignments, active_config, assigning,
                          tick, applied>>
      ]_vars

\* A press and the release of pad 9 were sent and applied in that order, the
\* press before the first render pass and the release before the second (it
\* was handled at tick 1); the second render pass is in progress
C14_Witness ==
    /\ pc = "render"
    /\ tick = 1
    /\ queue = <<>>
    /\ applied = << Msg("NoteOn", PAD_KEY_MIN + 9, 100),
                    Msg("NoteOff", PAD_KEY_MIN + 9, 0) >>
    /\ sent_log = applied
    /\ 9 \in DOMAIN entities
    /\ entities[9].t0 = 0
    /\ entities[9].t1.at = 1 + RELEASE_TIME

-----------------------------------------------------------------------------
(* C15 *)

\* C15: the frame step run at tick t removes from the live set exactly the
\* entities that are not gated and have t >= t1, in assigning mode as well as
\* outside it, and leaves every other entity as it is; it leaves the parameter
\* table, the active pad and the assigning flag unchanged and moves the tick
\* from t to t + 1.  No other step changes the tick.  After the step every
\* non-gated live entity has t1 > t.
C15_StepRetiresExactlyTheDead ==
    [][ /\ StepEnds =>
              /\ DOMAIN entities' =
                    {k \in DOMAIN entities :
                        entities[k].gated \/ ~ReachedT1(entities[k], tick)}
              /\ \A k \in DOMAIN entities' : entities'[k] = entities[k]
              /\ UNCHANGED <<assignments, active_config, assigning>>
              /\ tick' = tick + 1
              /\ \A k \in DOMAIN entities' :
                    ~entities'[k].gated => ~ReachedT1(entities'[k], tick)
        /\ ~StepEnds => tick' = tick
        /\ \A m \in LoopMessages : Handles(m) => tick' = tick
      ]_vars

\* In assigning mode a momentary entity was spawned by a press of pad 0
\* at tick 0 (duration 2), and the frame step run at tick 2 has retired it
C15_Witness ==
    /\ assigning
    /\ applied = << Msg("Controller", ASSIGN_CONTROLLER, CW_OFF),
                    Msg("NoteOn", PAD_KEY_MIN, 100) >>
    /\ fresh_entity_id = FIRST_ENTITY_ID + 1
    /\ entities = <<>>
    /\ pc = "drain"
    /\ tick = 3

-----------------------------------------------------------------------------
(* C16 *)

\* The fields of EntityConfig, and those in which two configurations differ
ConfigFields == {"hue", "kind", "duration", "alpha", "beta", "distance"}
ChangedFields(old, new) == {f \in ConfigFields : new[f] # old[f]}

\* The field a controller number edits
KnobField(knob) ==
    CASE knob = 3 \/ knob = 9 -> {"distance"}
      [] knob = 14 -> {"kind"}
      [] knob = 76 -> {"alpha"}
      [] knob = 77 -> {"beta"}
      [] knob = 78 -> {"duration"}
      [] knob = 79 -> {"hue"}
      [] OTHER     -> {}

\* What a knob turn leaves alone: the active pad has an entry afterwards, every
\* other pad's entry, the live set, the active pad, the assigning flag, the
\* tick and the fresh identity are as before
KnobTurnFrame ==
    /\ DOMAIN assignments' = DOMAIN assignments \cup {active_config}
    /\ \A p \in DOMAIN assignments \ {active_config} :
          assignments'[p] = assignments[p]
    /\ UNCHANGED <<entities, active_config, assigning, tick, fresh_entity_id>>

\* C16 (as stated): a knob turn that the handler completes changes exactly one
\* field of the active pad's configuration when the controller is one of the
\* parameter knobs (3, 9, 14, 76, 77, 78, 79) and no field when it is not
\* (72 .. 75), and changes nothing else.
C16_ExactlyOneField ==
    [][ \A m \in Messages :
            Handles(m) /\ IsKnobRotation(m) /\ ~panicked' =>
                /\ KnobTurnFrame
                /\ Cardinality(ChangedFields(PrevConfig,
                                             assignments'[active_config])) =
                      IF KnobField(m.num) = {} THEN 0 ELSE 1
      ]_vars

\* C16 (amended): a knob turn changes at most one field of the active pad's
\* configuration (an entry with the default configuration is created first if
\* the pad has none) and nothing else.  Controllers 14, 76, 77, 78 and 79 change
\* their field (kind, alpha, beta, duration, hue) with either value; controllers
\* 3 and 9 change distance only with a value other than 127 and when the u8
\* operation does not panic, and change no field with value 127; controllers
\* 72 .. 75 change no field.
C16_AtMostOneField ==
    [][ \A m \in Messages :
            Handles(m) /\ IsKnobRotation(m) =>
                LET changed == ChangedFields(PrevConfig,
                                             assignments'[active_config])
                IN  /\ KnobTurnFrame
                    /\ changed \subseteq KnobField(m.num)
                    /\ m.num \in {14, 76, 77, 78, 79} =>
                          changed = KnobField(m.num)
                    /\ m.num \in {3, 9} /\ m.val # CW_OFF /\ ~panicked' =>
                          changed = {"distance"}
                    /\ m.num \in {3, 9} /\ m.val = CW_OFF => changed = {}
                    /\ panicked' => changed = {}
      ]_vars

\* Controller 3 with value 127 has been handled for a pad without an entry: the
\* default entry was created and no field of it was changed
C16_Witness ==
    /\ handled = 1
    /\ event = Msg("Controller", 3, CW_OFF)
    /\ ~panicked
    /\ DOMAIN assignments = {0}
    /\ assignments[0] = DefaultConfig

-----------------------------------------------------------------------------
(* C17 *)

\* C17: an entity keeps the snapshot it was spawned with.  Over every step that
\* does not respawn the entity under its key (a press of its own pad), its
\* params, animation kind, distance metric, origin, colour and t0 are unchanged,
\* whatever knob turns, presses of other pads and assigning-mode overwrites
\* the step applies to the table; its gated flag and t1 change only in the
\* release of its pad.  Kind, metric and colour stay what Entity::new derives
\* from the params of the snapshot.
C17_SnapshotFrozen ==
    [][ /\ \A k \in DOMAIN entities \cap DOMAIN entities' :
              LET e == entities[k]
                  f == entities'[k]
              IN  ~Presses(k) =>
                      /\ f.params = e.params
                      /\ f.kind = e.kind
                      /\ f.distance = e.distance
                      /\ f.x = e.x /\ f.y = e.y
                      /\ f.color = e.color
                      /\ f.t0 = e.t0
                      /\ f.gated # e.gated \/ f.t1 # e.t1 => Releases(k)
        /\ \A k \in DOMAIN entities' :
              LET f == entities'[k]
              IN  /\ f.kind = Animation_from_int(f.params.kind)
                  /\ f.distance = Distance_from_int(f.params.distance)
                  /\ f.color = HsvColor(f.params.hue)
      ]_vars

\* A knob turn has just changed the table entry of the pad a live entity was
\* spawned from: the entity still has the configuration of its spawn
C17_Witness ==
    /\ handled = 2
    /\ IsKnobRotation(event)
    /\ \E k \in DOMAIN entities :
          LET p == entities[k].x + GRID * entities[k].y
          IN  /\ p = active_config
              /\ p \in DOMAIN assignments
              /\ assignments[p] # entities[k].params

-----------------------------------------------------------------------------
(* C18 *)

\* The probe is an answered call of Distance::eval with metric d
Evaluated(d) ==
    probe.fn = "Distance::eval" /\ probe.args[1] = d /\ probe.out # <<>>

\* C18: for every pair of cells of the 8x8 grid, the Rook distance is |dy| when
\* the cells share a column, |dx| when they share a row, and the sentinel 1024
\* otherwise; the Bishop distance is |dx| when |dx| = |dy| and the sentinel
\* otherwise; every distance of every metric that is not the sentinel is
\* smaller than the sentinel, and the sentinel is larger than the Stream
\* cutoff 12, so a cell at sentinel distance is outside the Stream radius.
\* (Distances are compared by their squares.)
C18_RookBishopSentinel ==
    probe.fn = "Distance::eval" /\ probe.out # <<>> =>
        LET x0 == probe.args[2]
            y0 == probe.args[3]
            x1 == probe.args[4]
            y1 == probe.args[5]
            dx == IF x1 >= x0 THEN x1 - x0 ELSE x0 - x1
            dy == IF y1 >= y0 THEN y1 - y0 ELSE y0 - y1
            r == probe.out[1]
        IN  /\ Evaluated("Rook") /\ x0 = x1 => r = dy * dy
            /\ Evaluated("Rook") /\ y0 = y1 => r = dx * dx
            /\ Evaluated("Rook") /\ x0 # x1 /\ y0 # y1 => r = SENTINEL * SENTINEL
            /\ Evaluated("Bishop") /\ dx = dy => r = dx * dx
            /\ Evaluated("Bishop") /\ dx # dy => r = SENTINEL * SENTINEL
            /\ r # SENTINEL * SENTINEL => r < SENTINEL * SENTINEL
            /\ r = SENTINEL * SENTINEL => ~StreamInRange(r)
            /\ STREAM_CUTOFF < SENTINEL
            /\ (Evaluated("Rook") \/ Evaluated("Bishop"))
                   /\ r # SENTINEL * SENTINEL => StreamInRange(r)

\* Rook (2,3)-(5,1) has been evaluated: the sentinel
C18_Witness ==
    /\ probe.fn = "Distance::eval"
    /\ probe.args = <<"Rook", 2, 3, 5, 1>>
    /\ probe.out = <<SENTINEL * SENTINEL>>

-----------------------------------------------------------------------------
(* C19 *)

\* The probe is an answered call of Entity::new
Spawned == probe.fn = "Entity::new" /\ probe.out # <<>>

-----------------------------------------------------------------------------
(* C20 *)

\* C20: every key of the live set is a pad index 0 .. 63 or a fresh identity
\* above 1000.  An entity keyed by pad index i was spawned gated (its variant
\* is a sustain variant) at origin (i mod 8, i div 8); an entity keyed by a
\* fresh identity is not gated.  fresh_entity_id never decreases, a new fresh
\* key is fresh_entity_id + 1 and becomes the new fresh_entity_id, so it is
\* above every identity used before.  A pad release leaves every identity-keyed
\* entity as it is, and a momentary spawn leaves every pad-keyed entity as it is.
C20_KeySpaces ==
    [][ /\ \A k \in DOMAIN entities' : k \in PadIndexes \/ k > FIRST_ENTITY_ID
        /\ \A k \in PadKeyed(entities') :
              /\ should_gate(entities'[k].kind)
              /\ entities'[k].x = k % GRID
              /\ entities'[k].y = k \div GRID
        /\ \A k \in FreshKeyed(entities') :
              /\ ~entities'[k].gated
              /\ ~should_gate(entities'[k].kind)
              /\ k <= fresh_entity_id'
        /\ fresh_entity_id' >= fresh_entity_id
        /\ \A k \in FreshKeyed(entities) : k <= fresh_entity_id
        /\ \A k \in FreshKeyed(entities') \ FreshKeyed(entities) :
              /\ k = fresh_entity_id + 1
              /\ fresh_entity_id' = k
              /\ \A p \in PadKeyed(entities) :
                    p \in DOMAIN entities' /\ entities'[p] = entities[p]
        /\ (\E m \in Messages : Handles(m) /\ IsPadRelease(m)) =>
              \A k \in FreshKeyed(entities) :
                  k \in DOMAIN entities' /\ entities'[k] = entities[k]
      ]_vars

\* A gated entity keyed by pad 9 and a momentary entity keyed by identity 1001
\* (spawned by a press of pad 0) are live together
C20_Witness ==
    /\ handled = 2
    /\ DOMAIN entities = {9, FIRST_ENTITY_ID + 1}
    /\ entities[9].gated
    /\ ~entities[FIRST_ENTITY_ID + 1].gated
    /\ entities[FIRST_ENTITY_ID + 1].x = 0
    /\ entities[FIRST_ENTITY_ID + 1].y = 0
    /\ fresh_entity_id = FIRST_ENTITY_ID + 1

-----------------------------------------------------------------------------
(* C21 *)

\* C21 (as stated): a turn of a distance knob (controller 3: minus 1,
\* controller 9: plus 1, with a value other than 127) never leaves the u8
\* range: the handler does not panic, and the active pad's distanceSelector
\* afterwards is the selector before the turn minus 1, respectively plus 1, as
\* an integer in 0 .. 255 (no wrap-around).
C21_DistanceStaysInRange ==
    [][ \A m \in Messages :
            Handles(m) /\ IsKnobRotation(m) /\ m.num \in {3, 9}
                       /\ m.val # CW_OFF =>
                /\ ~panicked'
                /\ active_config \in DOMAIN assignments'
                /\ assignments'[active_config].distance =
                      PrevConfig.distance + (IF m.num = 9 THEN 1 ELSE -1)
                /\ assignments'[active_config].distance \in 0 .. (U8 - 1)
      ]_vars

====
